---- MODULE Spec2Model ----
(***************************************************************************)
(* Model of scripts/validate.py: the manifest validator                    *)
(* (validate_manifest and its format helpers) and its driver (main).       *)
(*                                                                         *)
(* A parsed YAML value is a record [t, k, v]: t is the Python type of the  *)
(* value, v its content and k the keys of a mapping in insertion order.    *)
(* A Python str is a sequence of one-character strings, so that the        *)
(* regular expressions, str.replace and the string comparison of the code  *)
(* are computed character by character.                                    *)
(***************************************************************************)
EXTENDS Integers, Sequences, FiniteSets, TLC

\* ------------------------------------------------------------ model bounds
MaxMatchers == 2
MaxVersions == 2
MaxDocs == 2

\* ------------------------------------------------------------ Python values
PyNone == [t |-> "null", k |-> <<>>, v |-> <<>>]
PyStr(cs) == [t |-> "str", k |-> <<>>, v |-> cs]
PyInt(n) == [t |-> "int", k |-> <<>>, v |-> <<n>>]
PyList(xs) == [t |-> "list", k |-> <<>>, v |-> xs]
PyDict(ks, vs) == [t |-> "map", k |-> ks, v |-> vs]

\* The characters of the string literals the code tests for.
K_versions == <<"v", "e", "r", "s", "i", "o", "n", "s">>
K_released_at == <<"r", "e", "l", "e", "a", "s", "e", "d", "_", "a", "t">>
K_matchers == <<"m", "a", "t", "c", "h", "e", "r", "s">>
K_matcher_type == <<"m", "a", "t", "c", "h", "e", "r", "_", "t", "y", "p", "e">>
K_matcher_value == <<"m", "a", "t", "c", "h", "e", "r", "_", "v", "a", "l", "u", "e">>
K_severity == <<"s", "e", "v", "e", "r", "i", "t", "y">>

SEVERITY_VALUES ==
    { <<"g", "r", "e", "e", "n">>, <<"y", "e", "l", "l", "o", "w">>, <<"r", "e", "d">> }

T_default == <<"d", "e", "f", "a", "u", "l", "t">>
T_country == <<"c", "o", "u", "n", "t", "r", "y">>
T_location_hash == <<"l", "o", "c", "a", "t", "i", "o", "n", "_", "h", "a", "s", "h">>

MATCHER_TYPES == {T_default, T_country, T_location_hash}

VALID_COUNTRIES ==
    { <<"U", "S">>, <<"G", "B">>, <<"D", "E">>, <<"F", "R">>, <<"I", "T">>, <<"E", "S">>,
      <<"N", "L">>, <<"B", "E">>, <<"A", "T">>, <<"C", "H">>, <<"P", "L">>, <<"C", "Z">>,
      <<"S", "K">>, <<"H", "U">>, <<"R", "O">>, <<"B", "G">>, <<"H", "R">>, <<"S", "I">>,
      <<"S", "E">>, <<"N", "O">>, <<"D", "K">>, <<"F", "I">>, <<"I", "E">>, <<"P", "T">>,
      <<"G", "R">>, <<"L", "U">>, <<"E", "E">>, <<"L", "V">>, <<"L", "T">>, <<"C", "Y">>,
      <<"M", "T">>, <<"I", "S">> }

\* ------------------------------------------------------------ Python semantics
\* bool(x): None, "", 0, [] and {} are false.
Truthy(x) ==
    CASE x.t = "null" -> FALSE
      [] x.t = "int" -> x.v # <<0>>
      [] x.t = "map" -> x.k # <<>>
      [] OTHER -> x.v # <<>>

\* x == key for a str key: values of different types are never equal.
IsStr(x, cs) == x.t = "str" /\ x.v = cs

\* hash(x) succeeds: lists and dicts are unhashable.
Hashable(x) == x.t \notin {"list", "map"}

IsSubstring(needle, hay) ==
    \E s \in 0..(Len(hay) - Len(needle)) : SubSeq(hay, s + 1, s + Len(needle)) = needle

\* `key in c` for a str literal key: [exc, val].
Contains(key, c) ==
    CASE c.t = "map" -> [exc |-> "", val |-> \E n \in 1..Len(c.k) : IsStr(c.k[n], key)]
      [] c.t = "list" -> [exc |-> "", val |-> \E n \in 1..Len(c.v) : IsStr(c.v[n], key)]
      [] c.t = "str" -> [exc |-> "", val |-> IsSubstring(key, c.v)]
      [] OTHER -> [exc |-> "TypeError", val |-> FALSE]

\* `c[key]` for a str literal key: [exc, val].
GetItem(c, key) ==
    CASE c.t = "map" ->
           IF \E n \in 1..Len(c.k) : IsStr(c.k[n], key)
           THEN [exc |-> "", val |-> c.v[CHOOSE n \in 1..Len(c.k) : IsStr(c.k[n], key)]]
           ELSE [exc |-> "KeyError", val |-> PyNone]
      [] OTHER -> [exc |-> "TypeError", val |-> PyNone]

\* `c.get(key)`: only a dict has the method; an absent key gives None.
Get(c, key) ==
    IF c.t # "map" THEN [exc |-> "AttributeError", val |-> PyNone]
    ELSE IF \E n \in 1..Len(c.k) : IsStr(c.k[n], key)
         THEN [exc |-> "", val |-> c.v[CHOOSE n \in 1..Len(c.k) : IsStr(c.k[n], key)]]
         ELSE [exc |-> "", val |-> PyNone]

\* `x in S` / `x not in S` for a set S of str: hashes x first.
InSet(x, S) ==
    IF Hashable(x) THEN [exc |-> "", val |-> x.t = "str" /\ x.v \in S]
    ELSE [exc |-> "TypeError", val |-> FALSE]

\* iter(x) of a for loop: the items of a list, the keys of a dict, the
\* characters of a str.
Iterate(x) ==
    CASE x.t = "list" -> [exc |-> "", val |-> x.v]
      [] x.t = "map" -> [exc |-> "", val |-> x.k]
      [] x.t = "str" -> [exc |-> "", val |-> [n \in 1..Len(x.v) |-> PyStr(<<x.v[n]>>)]]
      [] OTHER -> [exc |-> "TypeError", val |-> <<>>]

RECURSIVE Join(_)
Join(cs) == IF cs = <<>> THEN "" ELSE cs[1] \o Join(Tail(cs))

DecimalDigits == <<"0", "1", "2", "3", "4", "5", "6", "7", "8", "9">>

\* The text an f-string puts for {x}: str(x).
Format(x) ==
    CASE x.t = "str" -> Join(x.v)
      [] x.t = "null" -> "None"
      [] x.t = "int" -> DecimalDigits[x.v[1] + 1]
      [] x.t = "list" -> "[]"
      [] OTHER -> "{}"

\* ------------------------------------------------------------ format helpers
Digits == {"0", "1", "2", "3", "4", "5", "6", "7", "8", "9"}
HexChars == Digits \cup {"a", "b", "c", "d", "e", "f"}
HashLen == 64

\* Where `$` lets a match end: at the end of the string, and also just
\* before a newline that is the last character.
DollarBodies(cs) ==
    {cs} \cup (IF Len(cs) > 0 /\ cs[Len(cs)] = "\n" THEN {SubSeq(cs, 1, Len(cs) - 1)} ELSE {})

\* \d+\.\d+\.\d+ over the whole of cs.
ThreeNumbers(cs) ==
    \E p, q \in 1..Len(cs) :
        /\ 1 < p /\ p + 1 < q /\ q < Len(cs)
        /\ \A n \in 1..Len(cs) : IF n \in {p, q} THEN cs[n] = "." ELSE cs[n] \in Digits

\* re.match(r'^\d+\.\d+\.\d+$', version) is not None; re.match wants a str.
validate_semver(version) ==
    IF version.t # "str" THEN [exc |-> "TypeError", val |-> FALSE]
    ELSE [exc |-> "", val |-> \E b \in DollarBodies(version.v) : ThreeNumbers(b)]

\* [a-f0-9]{64} over the whole of cs.
SixtyFourHex(cs) == Len(cs) = HashLen /\ \A n \in 1..Len(cs) : cs[n] \in HexChars

\* The character class without the digits: [a-f]{64}.
validate_location_hash_letters(hash_value) ==
    IF hash_value.t # "str" THEN [exc |-> "TypeError", val |-> FALSE]
    ELSE [exc |-> "",
          val |-> \E b \in DollarBodies(hash_value.v) :
                     Len(b) = HashLen /\ \A n \in 1..Len(b) : b[n] \in HexChars \ Digits]

\* re.match(r'^[a-f0-9]{64}$', hash_value) is not None.
validate_location_hash(hash_value) ==
    IF hash_value.t # "str" THEN [exc |-> "TypeError", val |-> FALSE]
    ELSE [exc |-> "", val |-> \E b \in DollarBodies(hash_value.v) : SixtyFourHex(b)]

\* timestamp.replace('Z', '+00:00')
RECURSIVE ReplaceZ(_)
ReplaceZ(cs) ==
    IF cs = <<>> THEN <<>>
    ELSE (IF cs[1] = "Z" THEN <<"+", "0", "0", ":", "0", "0">> ELSE <<cs[1]>>) \o ReplaceZ(Tail(cs))

DigitValue(c) == CHOOSE n \in 0..9 : DecimalDigits[n + 1] = c
AllDigits(cs) == \A n \in 1..Len(cs) : cs[n] \in Digits
TwoDigits(cs, at) == 10 * DigitValue(cs[at]) + DigitValue(cs[at + 1])

DaysInMonth(year, month) ==
    IF month = 2
    THEN (IF year % 4 = 0 /\ (year % 100 # 0 \/ year % 400 = 0) THEN 29 ELSE 28)
    ELSE (IF month \in {4, 6, 9, 11} THEN 30 ELSE 31)

\* YYYY-MM-DD naming a day of the calendar.
IsoDate(cs) ==
    /\ Len(cs) = 10 /\ cs[5] = "-" /\ cs[8] = "-"
    /\ AllDigits(SubSeq(cs, 1, 4)) /\ AllDigits(SubSeq(cs, 6, 7)) /\ AllDigits(SubSeq(cs, 9, 10))
    /\ LET year == 100 * TwoDigits(cs, 1) + TwoDigits(cs, 3)
           month == TwoDigits(cs, 6)
           day == TwoDigits(cs, 9)
       IN year >= 1 /\ month \in 1..12 /\ day \in 1..DaysInMonth(year, month)

\* HH, HH:MM or HH:MM:SS.
IsoTime(cs) ==
    /\ Len(cs) \in {2, 5, 8}
    /\ \A n \in 1..Len(cs) : IF n \in {3, 6} THEN cs[n] = ":" ELSE cs[n] \in Digits
    /\ TwoDigits(cs, 1) < 24
    /\ Len(cs) >= 5 => TwoDigits(cs, 4) < 60
    /\ Len(cs) = 8 => TwoDigits(cs, 7) < 60

\* +HH:MM or -HH:MM.
IsoOffset(cs) ==
    /\ Len(cs) = 6 /\ cs[1] \in {"+", "-"} /\ cs[4] = ":"
    /\ AllDigits(SubSeq(cs, 2, 3)) /\ AllDigits(SubSeq(cs, 5, 6))
    /\ TwoDigits(cs, 2) < 24 /\ TwoDigits(cs, 5) < 60

\* datetime.fromisoformat(cs) does not raise ValueError, for the extended
\* format: a date, then optionally any one separator character, a time and
\* a UTC offset.
fromisoformat(cs) ==
    \/ IsoDate(cs)
    \/ /\ Len(cs) > 11 /\ IsoDate(SubSeq(cs, 1, 10))
       /\ \E m \in 12..Len(cs) :
             /\ IsoTime(SubSeq(cs, 12, m))
             /\ m = Len(cs) \/ IsoOffset(SubSeq(cs, m + 1, Len(cs)))

\* validate_iso8601: only ValueError is caught; a value without a
\* str.replace raises out of the function.
validate_iso8601(timestamp) ==
    IF timestamp.t # "str" THEN [exc |-> "AttributeError", val |-> FALSE]
    ELSE [exc |-> "", val |-> fromisoformat(ReplaceZ(timestamp.v))]

\* The characters of version keys, in code point order.
CodePoints == <<"\n", ".", "0", "1", "2", "3", "4", "5", "6", "7", "8", "9", "v">>
Ord(c) == CHOOSE n \in 1..Len(CodePoints) : CodePoints[n] = c

\* a <= b for two str: by the first differing character, else by length.
StrLE(a, b) ==
    LET differ == {n \in 1..Len(a) : n <= Len(b) /\ a[n] # b[n]}
    IN IF differ = {} THEN Len(a) <= Len(b)
       ELSE LET first == CHOOSE n \in differ : \A m \in differ : n <= m
            IN Ord(a[first]) < Ord(b[first])

\* ------------------------------------------------------------ validate_manifest
\* Each step gives [exc, ...]: exc names the exception that leaves
\* validate_manifest uncaught at that step, "" when there is none.

\* A read failure that is swallowed: the document gets no error.
LoadFileSwallow(doc) ==
    CASE doc.kind = "yaml_error" ->
           [ret |-> TRUE, errors |-> <<"YAML syntax error: " \o doc.detail>>, data |-> PyNone]
      [] doc.kind = "io_error" -> [ret |-> TRUE, errors |-> <<>>, data |-> PyNone]
      [] OTHER -> [ret |-> FALSE, errors |-> <<>>, data |-> doc.data]

\* Lines 55-61: open and parse the file; both failures are caught and
\* returned as the one error of the document.
LoadFile(doc) ==
    CASE doc.kind = "yaml_error" ->
           [ret |-> TRUE, errors |-> <<"YAML syntax error: " \o doc.detail>>, data |-> PyNone]
      [] doc.kind = "io_error" ->
           [ret |-> TRUE, errors |-> <<"Error reading file: " \o doc.detail>>, data |-> PyNone]
      [] OTHER -> [ret |-> FALSE, errors |-> <<>>, data |-> doc.data]

\* Only the emptiness of data is tested.
TopStepNoKeyTest(d) ==
    IF ~Truthy(d) THEN [exc |-> "", ret |-> TRUE, errors |-> <<"Missing 'versions' key">>]
    ELSE [exc |-> "", ret |-> FALSE, errors |-> <<>>]

\* Lines 63-64: if not data or 'versions' not in data: return [...]
TopStep(d) ==
    IF ~Truthy(d) THEN [exc |-> "", ret |-> TRUE, errors |-> <<"Missing 'versions' key">>]
    ELSE LET c == Contains(K_versions, d)
         IN IF c.exc # "" THEN [exc |-> c.exc, ret |-> FALSE, errors |-> <<>>]
            ELSE IF ~c.val
                 THEN [exc |-> "", ret |-> TRUE, errors |-> <<"Missing 'versions' key">>]
                 ELSE [exc |-> "", ret |-> FALSE, errors |-> <<>>]

\* Lines 66-68: versions = data['versions']; if not versions: return [...]
VersionsStep(d) ==
    LET g == GetItem(d, K_versions)
    IN IF g.exc # "" THEN [exc |-> g.exc, ret |-> FALSE, errors |-> <<>>]
       ELSE IF ~Truthy(g.val)
            THEN [exc |-> "", ret |-> TRUE, errors |-> <<"No versions defined">>]
            ELSE [exc |-> "", ret |-> FALSE, errors |-> <<>>]

\* Line 71: list(versions.keys()); only a dict has keys().
KeysStep(vs) ==
    IF vs.t = "map" THEN [exc |-> "", val |-> vs.k] ELSE [exc |-> "AttributeError", val |-> <<>>]

\* A comparison that puts the shorter string first.
LessEqualByLength(a, b) ==
    IF a.t = "str" /\ b.t = "str"
    THEN [exc |-> "", val |-> Len(a.v) < Len(b.v) \/ (Len(a.v) = Len(b.v) /\ StrLE(a.v, b.v))]
    ELSE [exc |-> "TypeError", val |-> FALSE]

\* Line 80: version <= prev_version.
LessEqual(a, b) ==
    IF a.t = "str" /\ b.t = "str" THEN [exc |-> "", val |-> StrLE(a.v, b.v)]
    ELSE [exc |-> "TypeError", val |-> FALSE]

\* Lines 72-81: one iteration of the loop over version_list.
KeyStep(vl, n, errs) ==
    LET sv == validate_semver(vl[n])
        e1 == IF sv.val THEN errs
              ELSE Append(errs, "Invalid semantic version format: " \o Format(vl[n]))
    IN IF sv.exc # "" THEN [exc |-> sv.exc, errors |-> errs]
       ELSE IF n = 1 THEN [exc |-> "", errors |-> e1]
       ELSE LET le == LessEqual(vl[n], vl[n - 1])
            IN IF le.exc # "" THEN [exc |-> le.exc, errors |-> e1]
               ELSE IF le.val
                    THEN [exc |-> "",
                          errors |-> Append(e1, "Versions not in ascending order: "
                                                \o Format(vl[n - 1]) \o " -> " \o Format(vl[n]))]
                    ELSE [exc |-> "", errors |-> e1]

\* Lines 85-88: the released_at check of one version entry.
ReleasedAtCheck(ver, det) ==
    LET c == Contains(K_released_at, det)
        g == GetItem(det, K_released_at)
        iso == validate_iso8601(g.val)
    IN IF c.exc # "" THEN [exc |-> c.exc, errs |-> <<>>]
       ELSE IF ~c.val
            THEN [exc |-> "", errs |-> <<"Version " \o Format(ver) \o ": missing 'released_at'">>]
            ELSE IF g.exc # "" THEN [exc |-> g.exc, errs |-> <<>>]
            ELSE IF iso.exc # "" THEN [exc |-> iso.exc, errs |-> <<>>]
            ELSE IF ~iso.val
                 THEN [exc |-> "",
                       errs |-> <<"Version " \o Format(ver) \o ": invalid ISO 8601 timestamp">>]
                 ELSE [exc |-> "", errs |-> <<>>]

\* Lines 90-95, with e1 the errors after the released_at check: next is
\* "continue" (line 92) or "matchers" (the loop of line 95 starts, over items).
MatchersPresenceBreak(ver, det, e1) ==
    LET c == Contains(K_matchers, det)
    IN IF ~c.val
       THEN [exc |-> "",
             errors |-> Append(e1, "Version " \o Format(ver) \o ": missing 'matchers'"),
             next |-> "break", items |-> <<>>]
       ELSE [exc |-> "", errors |-> e1, next |-> "matchers",
             items |-> Iterate(GetItem(det, K_matchers).val).val]

MatchersPresence(ver, det, e1) ==
    LET c == Contains(K_matchers, det)
        g == GetItem(det, K_matchers)
        it == Iterate(g.val)
    IN IF c.exc # "" THEN [exc |-> c.exc, errors |-> e1, next |-> "", items |-> <<>>]
       ELSE IF ~c.val
            THEN [exc |-> "",
                  errors |-> Append(e1, "Version " \o Format(ver) \o ": missing 'matchers'"),
                  next |-> "continue", items |-> <<>>]
            ELSE IF g.exc # "" THEN [exc |-> g.exc, errors |-> e1, next |-> "", items |-> <<>>]
            ELSE IF it.exc # "" THEN [exc |-> it.exc, errors |-> e1, next |-> "", items |-> <<>>]
            ELSE [exc |-> "", errors |-> e1, next |-> "matchers", items |-> it.val]

\* Lines 85-95: the head of one iteration of the loop over versions.items().
EntryStep(ver, det, errs) ==
    LET r == ReleasedAtCheck(ver, det)
    IN IF r.exc # "" THEN [exc |-> r.exc, errors |-> errs, next |-> "", items |-> <<>>]
       ELSE MatchersPresence(ver, det, errs \o r.errs)

\* has_default assigned from the last matcher alone.
DefaultSeenLastOnly(has_def, matcher_type) == IsStr(matcher_type, T_default)

\* Lines 102-103: has_default after a matcher of an allowed type.
DefaultSeen(has_def, matcher_type) == has_def \/ IsStr(matcher_type, T_default)

\* Lines 105-108.
CountryCheck(ver, mt) ==
    LET country == Get(mt, K_matcher_value).val
        ok == InSet(country, VALID_COUNTRIES)
        err == <<"Version " \o Format(ver) \o ": invalid country code '" \o Format(country) \o "'">>
    IN IF ~Truthy(country) THEN [exc |-> "", errs |-> err]
       ELSE IF ok.exc # "" THEN [exc |-> ok.exc, errs |-> <<>>]
       ELSE [exc |-> "", errs |-> IF ok.val THEN <<>> ELSE err]

\* Lines 110-113.
HashCheck(ver, mt) ==
    LET hash_val == Get(mt, K_matcher_value).val
        ok == validate_location_hash(hash_val)
        err == <<"Version " \o Format(ver) \o ": invalid location hash format">>
    IN IF ~Truthy(hash_val) THEN [exc |-> "", errs |-> err]
       ELSE IF ok.exc # "" THEN [exc |-> ok.exc, errs |-> <<>>]
       ELSE [exc |-> "", errs |-> IF ok.val THEN <<>> ELSE err]

\* Lines 115-117.
SeverityCheck(ver, mt) ==
    LET severity == Get(mt, K_severity).val
        ok == InSet(severity, SEVERITY_VALUES)
    IN IF ok.exc # "" THEN [exc |-> ok.exc, errs |-> <<>>]
       ELSE [exc |-> "",
             errs |-> IF ok.val THEN <<>>
                      ELSE <<"Version " \o Format(ver) \o ": invalid severity '"
                             \o Format(severity) \o "'">>]

\* Lines 102-117: the checks of a matcher of an allowed type ty.
TypedChecks(ver, mt, ty, has_def, errs) ==
    LET cc == IF IsStr(ty, T_country) THEN CountryCheck(ver, mt)
              ELSE [exc |-> "", errs |-> <<>>]
        hc == IF IsStr(ty, T_location_hash) THEN HashCheck(ver, mt)
              ELSE [exc |-> "", errs |-> <<>>]
        sc == SeverityCheck(ver, mt)
        hd == DefaultSeen(has_def, ty)
    IN IF cc.exc # "" THEN [exc |-> cc.exc, errors |-> errs, has_default |-> hd]
       ELSE IF hc.exc # ""
            THEN [exc |-> hc.exc, errors |-> errs \o cc.errs, has_default |-> hd]
       ELSE IF sc.exc # ""
            THEN [exc |-> sc.exc, errors |-> errs \o cc.errs \o hc.errs, has_default |-> hd]
       ELSE [exc |-> "", errors |-> errs \o cc.errs \o hc.errs \o sc.errs, has_default |-> hd]

\* MatcherStep without the continue of line 100.
MatcherStepNoContinue(ver, mt, has_def, errs) ==
    LET ty == Get(mt, K_matcher_type)
        allowed == InSet(ty.val, MATCHER_TYPES)
    IN IF ty.exc # "" THEN [exc |-> ty.exc, errors |-> errs, has_default |-> has_def]
       ELSE IF allowed.exc # "" THEN [exc |-> allowed.exc, errors |-> errs, has_default |-> has_def]
       ELSE TypedChecks(ver, mt, ty.val, has_def,
                        IF allowed.val THEN errs
                        ELSE Append(errs, "Version " \o Format(ver) \o ": invalid matcher_type '"
                                          \o Format(ty.val) \o "'"))

\* Lines 96-117: one iteration of the loop over the matchers of a version.
MatcherStep(ver, mt, has_def, errs) ==
    LET ty == Get(mt, K_matcher_type)
        allowed == InSet(ty.val, MATCHER_TYPES)
    IN IF ty.exc # "" THEN [exc |-> ty.exc, errors |-> errs, has_default |-> has_def]
       ELSE IF allowed.exc # "" THEN [exc |-> allowed.exc, errors |-> errs, has_default |-> has_def]
       ELSE IF ~allowed.val
            THEN [exc |-> "",
                  errors |-> Append(errs, "Version " \o Format(ver) \o ": invalid matcher_type '"
                                          \o Format(ty.val) \o "'"),
                  has_default |-> has_def]
            ELSE TypedChecks(ver, mt, ty.val, has_def, errs)

\* Lines 119-120.
DefaultStep(ver, has_def, errs) ==
    IF has_def THEN errs
    ELSE Append(errs, "Version " \o Format(ver) \o ": missing default matcher")

\* ------------------------------------------------------------ inputs
\* Marks a field a mapping does not have.
Absent == [t |-> "absent", k |-> <<>>, v |-> <<>>]

\* The mapping of the (key, value) pairs whose value is present.
Fields(pairs) ==
    LET present == SelectSeq(pairs, LAMBDA p : p[2] # Absent)
    IN PyDict([n \in 1..Len(present) |-> PyStr(present[n][1])],
              [n \in 1..Len(present) |-> present[n][2]])

Matcher(ty, val, sev) ==
    Fields(<< <<K_matcher_type, ty>>, <<K_matcher_value, val>>, <<K_severity, sev>> >>)

Entry(released_at, matcher_list) ==
    Fields(<< <<K_released_at, released_at>>, <<K_matchers, matcher_list>> >>)

Manifest(keys, entries) == Fields(<< <<K_versions, PyDict(keys, entries)>> >>)

SeqsUpTo(S, n) == UNION {[1..m -> S] : m \in 0..n}
Distinct(q) == \A a, b \in 1..Len(q) : a # b => q[a] # q[b]

Green == PyStr(<<"g", "r", "e", "e", "n">>)
Blue == PyStr(<<"b", "l", "u", "e">>)
US == PyStr(<<"U", "S">>)
XX == PyStr(<<"X", "X">>)
Geo == PyStr(<<"g", "e", "o">>)
Hex64 == PyStr([n \in 1..HashLen |-> IF n % 2 = 0 THEN "a" ELSE "0"])
Hex64Newline == PyStr(Hex64.v \o <<"\n">>)
ShortHash == PyStr(<<"a", "b", "c">>)

V_1_0_0 == PyStr(<<"1", ".", "0", ".", "0">>)
V_2_0_0 == PyStr(<<"2", ".", "0", ".", "0">>)
V_10_0_0 == PyStr(<<"1", "0", ".", "0", ".", "0">>)
V_1_0 == PyStr(<<"1", ".", "0">>)
V_1_0_0_Newline == PyStr(<<"1", ".", "0", ".", "0", "\n">>)

\* "2024-01-01T00:00:00Z", "2024-13-01" and "2024-01-01x00:00"
TsUtc ==
    PyStr(<<"2", "0", "2", "4", "-", "0", "1", "-", "0", "1", "T",
            "0", "0", ":", "0", "0", ":", "0", "0", "Z">>)
TsMonth13 == PyStr(<<"2", "0", "2", "4", "-", "1", "3", "-", "0", "1">>)
TsSepX ==
    PyStr(<<"2", "0", "2", "4", "-", "0", "1", "-", "0", "1", "x", "0", "0", ":", "0", "0">>)

MatcherPool ==
    {Matcher(PyStr(T_default), Absent, s) : s \in {Green, Blue, Absent}}
    \cup {Matcher(PyStr(T_country), c, s) : c \in {US, XX, Absent, PyList(<<US>>)},
                                            s \in {Green, Blue}}
    \cup {Matcher(PyStr(T_location_hash), h, Green) :
              h \in {Hex64, Hex64Newline, ShortHash, Absent, PyInt(5)}}
    \cup {Matcher(PyStr(T_location_hash), ShortHash, Blue)}
    \cup {Matcher(ty, XX, s) : ty \in {Geo, Absent}, s \in {Green, Blue}}
    \cup {Matcher(PyList(<<PyStr(T_default)>>), Absent, Green)}
    \cup {PyNone, PyStr(T_default)}

DefaultGreen == Matcher(PyStr(T_default), Absent, Green)

EntryPool ==
    { Entry(TsUtc, PyList(<<DefaultGreen>>)),
      Entry(Absent, PyList(<<Matcher(PyStr(T_country), US, Green)>>)),
      Entry(TsMonth13, PyList(<<Matcher(PyStr(T_default), Absent, Blue)>>)),
      Entry(TsSepX, PyList(<<DefaultGreen, DefaultGreen>>)),
      Entry(TsUtc, Absent),
      Entry(Absent, Absent),
      Entry(PyInt(5), PyList(<<DefaultGreen>>)),
      PyNone }

KeyPool == {V_1_0_0, V_2_0_0, V_10_0_0, V_1_0, V_1_0_0_Newline}

\* Top-level shapes.
ShapeManifests ==
    { PyNone, PyInt(0), PyInt(5), PyStr(<<"a", "b", "c">>), PyStr(K_versions),
      PyList(<<PyStr(K_versions)>>), PyDict(<<>>, <<>>),
      Fields(<< <<K_matchers, PyList(<<>>)>> >>),
      Fields(<< <<K_versions, PyNone>> >>),
      Fields(<< <<K_versions, PyInt(0)>> >>),
      Fields(<< <<K_versions, PyInt(5)>> >>),
      Fields(<< <<K_versions, PyList(<<>>)>> >>),
      Fields(<< <<K_versions, PyList(<<V_1_0_0>>)>> >>),
      Fields(<< <<K_versions, V_1_0_0>> >>),
      Fields(<< <<K_versions, PyDict(<<>>, <<>>)>> >>),
      Manifest(<<PyInt(1)>>, <<Entry(TsUtc, PyList(<<DefaultGreen>>))>>),
      Manifest(<<V_1_0_0>>, <<Entry(TsUtc, PyNone)>>),
      Manifest(<<V_1_0_0>>, <<Entry(TsUtc, PyStr(T_default))>>),
      Manifest(<<V_1_0_0>>, <<Entry(TsUtc, DefaultGreen)>>),
      Manifest(<<V_1_0_0>>, <<PyStr(K_released_at \o K_matchers)>>) }

Parsed(d) == [kind |-> "ok", data |-> d, detail |-> ""]
YamlError == [kind |-> "yaml_error", data |-> PyNone, detail |-> "mapping values are not allowed here"]
IoError == [kind |-> "io_error", data |-> PyNone, detail |-> "Permission denied"]

\* The documents of the runs over several files.
DriverPool ==
    { YamlError, IoError,
      Parsed(Manifest(<<V_1_0_0>>, <<Entry(TsUtc, PyList(<<DefaultGreen>>))>>)),
      Parsed(Manifest(<<V_1_0>>, <<Entry(TsUtc, PyList(<<DefaultGreen>>))>>)),
      Parsed(PyDict(<<>>, <<>>)),
      Parsed(Fields(<< <<K_versions, V_1_0_0>> >>)) }

\* manifest_file.name of the n-th file of the directory.
FileName(n) == "m" \o DecimalDigits[n + 1] \o ".yml"

\* ------------------------------------------------------------ state
VARIABLES
    exists,       \* manifests_dir.exists()
    files,        \* what manifests_dir.glob('*.yml') yields, in order
    pc,           \* the position of the program
    f,            \* main: index in files of manifest_file
    all_errors,   \* main: all_errors, in insertion order
    result,       \* main: errors, the list validate_manifest returned
    exit_code,    \* the exit status of the process, -1 while it runs
    stdout,       \* the lines printed
    raised,       \* the exception that ended the process, "" if none
    data,         \* validate_manifest: data
    n,            \* validate_manifest: position in version_list / versions.items()
    m,            \* validate_manifest: position in details['matchers']
    has_default,  \* validate_manifest: has_default
    errors        \* validate_manifest: errors

vars == <<exists, files, pc, f, all_errors, result, exit_code, stdout, raised,
          data, n, m, has_default, errors>>

mainVars == <<f, all_errors, result, exit_code, stdout>>

versions == GetItem(data, K_versions).val
version_list == versions.k
version == versions.k[n]
details == versions.v[n]
matchers == Iterate(GetItem(details, K_matchers).val).val

Init ==
    /\ \/ exists = FALSE /\ files = <<>>
       \/ exists = TRUE /\ files \in SeqsUpTo(DriverPool, MaxDocs)
       \/ exists = TRUE /\ \E d \in ShapeManifests : files = <<Parsed(d)>>
       \* one version, every list of matchers
       \/ /\ exists = TRUE
          /\ \E ms \in SeqsUpTo(MatcherPool, MaxMatchers) :
                files = <<Parsed(Manifest(<<V_1_0_0>>, <<Entry(TsUtc, PyList(ms))>>))>>
       \* every list of distinct version keys, every entry for each
       \/ /\ exists = TRUE
          /\ \E ks \in SeqsUpTo(KeyPool, MaxVersions) :
                /\ Len(ks) > 0 /\ Distinct(ks)
                /\ \E es \in [1..Len(ks) -> EntryPool] : files = <<Parsed(Manifest(ks, es))>>
    /\ pc = "main"
    /\ f = 0
    /\ all_errors = <<>>
    /\ result = <<>>
    /\ exit_code = -1
    /\ stdout = <<>>
    /\ raised = ""
    /\ data = PyNone
    /\ n = 0
    /\ m = 0
    /\ has_default = FALSE
    /\ errors = <<>>

\* ------------------------------------------------------------ actions
Locals(d, nn, mm, hd, errs) ==
    data' = d /\ n' = nn /\ m' = mm /\ has_default' = hd /\ errors' = errs

\* An exception nothing catches: the traceback, then exit status 1.
Raise(e) ==
    /\ pc' = "crashed" /\ raised' = e /\ exit_code' = 1
    /\ UNCHANGED <<f, all_errors, result, stdout, data, n, m, has_default, errors>>

\* return errs: back in main at line 134, the frame is gone.
Return(errs) ==
    /\ pc' = "collect" /\ result' = errs
    /\ Locals(PyNone, 0, 0, FALSE, <<>>)
    /\ UNCHANGED <<f, all_errors, exit_code, stdout, raised>>

Goto(p, nn, mm, hd, errs) ==
    /\ pc' = p /\ Locals(data, nn, mm, hd, errs)
    /\ UNCHANGED <<mainVars, raised>>

\* The next iteration of the loop over versions.items(), or its end.
NextVersion(hd, errs) ==
    IF n < Len(version_list) THEN Goto("entry", n + 1, 0, hd, errs)
    ELSE Goto("return", n, 0, hd, errs)

\* Lines 126-132.
Main ==
    /\ pc = "main"
    /\ IF exists
       THEN pc' = "for" /\ UNCHANGED <<exit_code, stdout>>
       ELSE /\ pc' = "exited" /\ exit_code' = 1
            /\ stdout' = <<"Error: manifests directory not found">>
    /\ all_errors' = <<>>
    /\ UNCHANGED <<exists, files, f, result, raised, data, n, m, has_default, errors>>

\* Lines 133-134: the next manifest_file, and the call of validate_manifest.
ForManifest ==
    /\ pc = "for"
    /\ IF f < Len(files) THEN pc' = "load" /\ f' = f + 1 ELSE pc' = "report" /\ f' = f
    /\ UNCHANGED <<exists, files, all_errors, result, exit_code, stdout, raised,
                   data, n, m, has_default, errors>>

\* Lines 53-61.
Load ==
    /\ pc = "load"
    /\ LET r == LoadFile(files[f])
       IN IF r.ret THEN Return(r.errors)
          ELSE pc' = "top" /\ Locals(r.data, 0, 0, FALSE, <<>>) /\ UNCHANGED <<mainVars, raised>>
    /\ UNCHANGED <<exists, files>>

\* Lines 63-64.
Top ==
    /\ pc = "top"
    /\ LET r == TopStep(data)
       IN IF r.exc # "" THEN Raise(r.exc)
          ELSE IF r.ret THEN Return(r.errors)
          ELSE Goto("versions", n, m, has_default, errors)
    /\ UNCHANGED <<exists, files>>

\* Lines 66-68.
Versions ==
    /\ pc = "versions"
    /\ LET r == VersionsStep(data)
       IN IF r.exc # "" THEN Raise(r.exc)
          ELSE IF r.ret THEN Return(r.errors)
          ELSE Goto("keys", n, m, has_default, errors)
    /\ UNCHANGED <<exists, files>>

\* Line 71, and the start of the loop of line 72.
Keys ==
    /\ pc = "keys"
    /\ LET r == KeysStep(versions)
       IN IF r.exc # "" THEN Raise(r.exc) ELSE Goto("key", 1, m, has_default, errors)
    /\ UNCHANGED <<exists, files>>

\* Lines 72-81, and the start of the loop of line 84 after the last key.
Key ==
    /\ pc = "key"
    /\ LET r == KeyStep(version_list, n, errors)
       IN IF r.exc # "" THEN Raise(r.exc)
          ELSE IF n < Len(version_list) THEN Goto("key", n + 1, m, has_default, r.errors)
          ELSE Goto("entry", 1, m, has_default, r.errors)
    /\ UNCHANGED <<exists, files>>

\* Lines 84-95.
VersionEntry ==
    /\ pc = "entry"
    /\ LET r == EntryStep(version, details, errors)
       IN IF r.exc # "" THEN Raise(r.exc)
          ELSE IF r.next = "matchers"
               THEN (IF r.items = <<>> THEN Goto("default", n, 0, FALSE, r.errors)
                     ELSE Goto("matcher", n, 1, FALSE, r.errors))
          ELSE IF r.next = "continue" THEN NextVersion(has_default, r.errors)
          ELSE Goto("return", n, 0, has_default, r.errors)
    /\ UNCHANGED <<exists, files>>

\* Lines 95-117.
MatcherCheck ==
    /\ pc = "matcher"
    /\ LET r == MatcherStep(version, matchers[m], has_default, errors)
       IN IF r.exc # "" THEN Raise(r.exc)
          ELSE IF m < Len(matchers) THEN Goto("matcher", n, m + 1, r.has_default, r.errors)
          ELSE Goto("default", n, m, r.has_default, r.errors)
    /\ UNCHANGED <<exists, files>>

\* Lines 119-120.
DefaultCheck ==
    /\ pc = "default"
    /\ NextVersion(has_default, DefaultStep(version, has_default, errors))
    /\ UNCHANGED <<exists, files>>

\* Line 122.
ReturnErrors ==
    /\ pc = "return"
    /\ Return(errors)
    /\ UNCHANGED <<exists, files>>

\* Lines 135-136.
Collect ==
    /\ pc = "collect"
    /\ all_errors' = IF result # <<>>
                     THEN Append(all_errors, [name |-> FileName(f), errors |-> result])
                     ELSE all_errors
    /\ pc' = "for"
    /\ UNCHANGED <<exists, files, f, result, exit_code, stdout, raised,
                   data, n, m, has_default, errors>>

RECURSIVE Listing(_)
\* Lines 140-143: what the loops print.
Listing(entries) ==
    IF entries = <<>> THEN <<>>
    ELSE <<entries[1].name \o ":">>
         \o [e \in 1..Len(entries[1].errors) |-> "  - " \o entries[1].errors[e]]
         \o Listing(Tail(entries))

\* Lines 138-147.
Report ==
    /\ pc = "report"
    /\ IF all_errors # <<>>
       THEN stdout' = <<"Validation failed:\n">> \o Listing(all_errors) /\ exit_code' = 1
       ELSE stdout' = <<"All manifest files are valid">> /\ exit_code' = 0
    /\ pc' = "exited"
    /\ UNCHANGED <<exists, files, f, all_errors, result, raised, data, n, m, has_default, errors>>

Next ==
    \/ Main \/ ForManifest \/ Load \/ Top \/ Versions \/ Keys \/ Key
    \/ VersionEntry \/ MatcherCheck \/ DefaultCheck \/ ReturnErrors \/ Collect \/ Report

Spec == Init /\ [][Next]_vars

\* ------------------------------------------------------------ properties
Range(q) == {q[a] : a \in 1..Len(q)}
HasKey(d, key) == d.t = "map" /\ \E a \in 1..Len(d.k) : IsStr(d.k[a], key)
ValueOf(d, key) == d.v[CHOOSE a \in 1..Len(d.k) : IsStr(d.k[a], key)]

\* validate_manifest has just returned result for a document that parsed.
input == files[f].data
Returned == pc = "collect" /\ files[f].kind = "ok"

\* validate_manifest has ended for a document that parsed: it returned, or
\* an exception left it.
Finished == pc \in {"collect", "crashed"} /\ files[f].kind = "ok"

\* The versions of the input went through the two loops of the validator.
in_versions == ValueOf(input, K_versions)
Checked == Returned /\ HasKey(input, K_versions) /\ in_versions.t = "map" /\ in_versions.k # <<>>

\* a < b, lexicographically, for two strings.
RECURSIVE LexLess(_, _)
LexLess(a, b) ==
    IF b = <<>> THEN FALSE
    ELSE IF a = <<>> THEN TRUE
    ELSE IF a[1] = b[1] THEN LexLess(Tail(a), Tail(b))
    ELSE Ord(a[1]) < Ord(b[1])

\* An ISO 8601 timestamp: a calendar date, alone or followed by T, a time
\* of day and Z or a UTC offset.
Iso8601(cs) ==
    \/ IsoDate(cs)
    \/ /\ Len(cs) > 11 /\ IsoDate(SubSeq(cs, 1, 10)) /\ cs[11] = "T"
       /\ \E e \in 12..Len(cs) :
             /\ Len(SubSeq(cs, 12, e)) \in {5, 8} /\ IsoTime(SubSeq(cs, 12, e))
             /\ LET zone == SubSeq(cs, e + 1, Len(cs))
                IN zone = <<>> \/ zone = <<"Z">> \/ IsoOffset(zone)

ValidMatcher(mt) ==
    /\ mt.t = "map"
    /\ HasKey(mt, K_matcher_type)
    /\ LET ty == ValueOf(mt, K_matcher_type)
       IN /\ ty.t = "str" /\ ty.v \in MATCHER_TYPES
          /\ ty.v \in {T_country, T_location_hash} =>
                /\ HasKey(mt, K_matcher_value)
                /\ ValueOf(mt, K_matcher_value).t = "str"
                /\ ty.v = T_country => ValueOf(mt, K_matcher_value).v \in VALID_COUNTRIES
                /\ ty.v = T_location_hash => SixtyFourHex(ValueOf(mt, K_matcher_value).v)
    /\ HasKey(mt, K_severity)
    /\ ValueOf(mt, K_severity).t = "str" /\ ValueOf(mt, K_severity).v \in SEVERITY_VALUES

IsDefaultMatcher(mt) ==
    HasKey(mt, K_matcher_type) /\ IsStr(ValueOf(mt, K_matcher_type), T_default)

ValidEntry(e) ==
    /\ HasKey(e, K_released_at)
    /\ ValueOf(e, K_released_at).t = "str" /\ Iso8601(ValueOf(e, K_released_at).v)
    /\ HasKey(e, K_matchers)
    /\ LET ms == ValueOf(e, K_matchers)
       IN /\ ms.t = "list"
          /\ \A a \in 1..Len(ms.v) : ValidMatcher(ms.v[a])
          /\ \E a \in 1..Len(ms.v) : IsDefaultMatcher(ms.v[a])

\* The manifest satisfies every rule of the format.
ValidManifest(d) ==
    /\ HasKey(d, K_versions)
    /\ LET vs == ValueOf(d, K_versions)
       IN /\ vs.t = "map" /\ vs.k # <<>>
          /\ \A a \in 1..Len(vs.k) : vs.k[a].t = "str" /\ ThreeNumbers(vs.k[a].v)
          /\ \A a \in 2..Len(vs.k) : LexLess(vs.k[a - 1].v, vs.k[a].v)
          /\ \A a \in 1..Len(vs.v) : ValidEntry(vs.v[a])

\* The matchers of a version entry; none when it has no matchers list.
MatchersOf(e) ==
    IF HasKey(e, K_matchers) /\ ValueOf(e, K_matchers).t = "list"
    THEN ValueOf(e, K_matchers).v ELSE <<>>

MissingDefaultText(key) == "Version " \o Join(key.v) \o ": missing default matcher"
MissingMatchersText(key) == "Version " \o Join(key.v) \o ": missing 'matchers'"
MissingReleasedAtText(key) == "Version " \o Join(key.v) \o ": missing 'released_at'"
OrderText(a, b) == "Versions not in ascending order: " \o Join(a.v) \o " -> " \o Join(b.v)
FormatText(key) == "Invalid semantic version format: " \o Join(key.v)

\* C1: for every parsed manifest value the validator returns a sequence of
\* errors and never raises.
C1_NeverRaises == raised = ""

\* C2 as stated: a manifest whose versions key is absent, or whose versions
\* value is not a mapping, gets exactly ["Missing 'versions' key"].
C2_NonMappingVersions ==
    (Returned /\ (~HasKey(input, K_versions) \/ ValueOf(input, K_versions).t # "map"))
        => result = <<"Missing 'versions' key">>

\* The manifest is empty, or a mapping without the versions key.
LacksVersions(d) == ~Truthy(d) \/ (d.t = "map" /\ ~HasKey(d, K_versions))

\* C2 amended: a manifest that is empty, or a mapping without the versions
\* key, gets exactly ["Missing 'versions' key"], returned at once.
C2_AbsentVersions ==
    (Finished /\ LacksVersions(input)) => (pc = "collect" /\ result = <<"Missing 'versions' key">>)

C2_Witness ==
    /\ Returned /\ input.t = "map" /\ input.k # <<>> /\ ~HasKey(input, K_versions)
    /\ result = <<"Missing 'versions' key">>

\* C3: a manifest that satisfies every rule (version keys of the semantic
\* version format in ascending order, which for this validator is the
\* lexicographic order of the keys) yields no error.
C3_ValidManifestNoErrors ==
    (Finished /\ ValidManifest(input)) => (pc = "collect" /\ result = <<>>)

C3_Witness ==
    /\ Returned /\ ValidManifest(input) /\ result = <<>>
    /\ \E mt \in Range(MatchersOf(in_versions.v[1])) :
          IsStr(ValueOf(mt, K_matcher_type), T_location_hash)

\* C4: when validate returns no error, the manifest satisfies every rule.
C4_NoErrorsImpliesValid == (Returned /\ result = <<>>) => ValidManifest(input)

C6_NoDuplicates ==
    pc = "collect" => \A a, b \in 1..Len(result) : a # b => result[a] # result[b]

\* C7 as stated: a version gets the missing-default error exactly when it
\* has zero default-typed matchers.
C7_ZeroDefaults ==
    Checked =>
        \A a \in 1..Len(in_versions.k) :
            MissingDefaultText(in_versions.k[a]) \in Range(result)
                <=> ~\E mt \in Range(MatchersOf(in_versions.v[a])) : IsDefaultMatcher(mt)

\* C7 amended: a version that has a matchers sequence gets the
\* missing-default error exactly when none of its matchers is default-typed;
\* several defaults are not flagged.
C7_ZeroDefaultsAmongMatchers ==
    Checked =>
        \A a \in 1..Len(in_versions.k) :
            HasKey(in_versions.v[a], K_matchers) =>
                (MissingDefaultText(in_versions.k[a]) \in Range(result)
                    <=> ~\E mt \in Range(MatchersOf(in_versions.v[a])) : IsDefaultMatcher(mt))

C7_Witness ==
    /\ Checked
    /\ HasKey(in_versions.v[1], K_matchers)
    /\ Len(MatchersOf(in_versions.v[1])) = 2
    /\ \A mt \in Range(MatchersOf(in_versions.v[1])) : ValidMatcher(mt) /\ ~IsDefaultMatcher(mt)
    /\ MissingDefaultText(in_versions.k[1]) \in Range(result)

\* The matcher_type of mt is outside MATCHER_TYPES (absent included).
InvalidType(mt) ==
    /\ mt.t = "map"
    /\ ~HasKey(mt, K_matcher_type)
       \/ LET ty == ValueOf(mt, K_matcher_type)
          IN Hashable(ty) /\ ~(ty.t = "str" /\ ty.v \in MATCHER_TYPES)

InvalidTypeText(key, mt) ==
    "Version " \o Join(key.v) \o ": invalid matcher_type '"
    \o (IF HasKey(mt, K_matcher_type) THEN Format(ValueOf(mt, K_matcher_type)) ELSE "None")
    \o "'"

\* C8: a matcher whose matcher_type is outside the allowed set adds the
\* invalid-matcher_type error and nothing else, whatever its other fields
\* are; has_default is untouched and the loop goes on with the next matcher.
\* The error is in the result.
C8_InvalidTypeSkipsMatcher ==
    /\ [][(pc = "matcher" /\ InvalidType(matchers[m])) =>
            /\ errors' = Append(errors, InvalidTypeText(version, matchers[m]))
            /\ has_default' = has_default
            /\ n' = n
            /\ IF m < Len(matchers) THEN pc' = "matcher" /\ m' = m + 1 ELSE pc' = "default"]_vars
    /\ [](Checked =>
            \A a \in 1..Len(in_versions.k) :
                \A mt \in Range(MatchersOf(in_versions.v[a])) :
                    InvalidType(mt) => InvalidTypeText(in_versions.k[a], mt) \in Range(result))

C8_Witness ==
    /\ pc = "default" /\ Len(matchers) = 2 /\ has_default
    /\ InvalidType(matchers[2])
    /\ ValueOf(matchers[2], K_severity) = Blue
    /\ errors = <<InvalidTypeText(version, matchers[2])>>

Entries(name) == {a \in 1..Len(all_errors) : all_errors[a].name = name}

\* C9: when main has gone through the documents and reports, the report is
\* success exactly when no document has an error; a document that failed to
\* parse or to be read has exactly its one error, the checks of the
\* validator never ran on it, and every document was processed.
C9_DriverOutcome ==
    /\ pc \in {"top", "versions", "keys", "key", "entry", "matcher", "default", "return"}
          => files[f].kind = "ok"
    /\ (pc = "exited" /\ exists) =>
          /\ f = Len(files)
          /\ \A a \in 1..Len(files) :
                /\ files[a].kind = "yaml_error" =>
                      \E e \in Entries(FileName(a)) :
                          all_errors[e].errors = <<"YAML syntax error: " \o files[a].detail>>
                /\ files[a].kind = "io_error" =>
                      \E e \in Entries(FileName(a)) :
                          all_errors[e].errors = <<"Error reading file: " \o files[a].detail>>
                /\ Cardinality(Entries(FileName(a))) <= 1
                /\ (files[a].kind = "ok" /\ ValidManifest(files[a].data))
                      => Entries(FileName(a)) = {}
                /\ (files[a].kind = "ok" /\ ~HasKey(files[a].data, K_versions))
                      => Entries(FileName(a)) # {}
          /\ exit_code = 0 <=> \A a \in 1..Len(files) : Entries(FileName(a)) = {}
          /\ exit_code \in {0, 1}
          /\ exit_code = 0 <=> stdout = <<"All manifest files are valid">>

C9_Witness ==
    /\ pc = "exited" /\ Len(files) = 2
    /\ files[1].kind = "io_error" /\ files[2].kind = "ok"
    /\ Len(all_errors) = 2 /\ exit_code = 1

\* What the released_at check adds for an entry whose released_at is absent
\* or a string.
ReleasedAtTexts(key, e) ==
    IF ~HasKey(e, K_released_at) THEN <<MissingReleasedAtText(key)>>
    ELSE IF fromisoformat(ReplaceZ(ValueOf(e, K_released_at).v)) THEN <<>>
    ELSE <<"Version " \o Join(key.v) \o ": invalid ISO 8601 timestamp">>

LacksMatchers(e) ==
    /\ e.t = "map" /\ ~HasKey(e, K_matchers)
    /\ HasKey(e, K_released_at) => ValueOf(e, K_released_at).t = "str"

\* C10: a version whose entry lacks matchers adds, after the outcome of its
\* released_at check, the missing-'matchers' error and nothing else: no
\* matcher is checked and no missing-default error is added for it, and the
\* loop goes on with the next version. The result has the one and not the
\* other.
C10_MissingMatchersSkipsVersion ==
    /\ [][(pc = "entry" /\ LacksMatchers(details)) =>
            /\ errors' = errors \o ReleasedAtTexts(version, details)
                                \o <<MissingMatchersText(version)>>
            /\ IF n < Len(version_list) THEN pc' = "entry" /\ n' = n + 1 ELSE pc' = "return"]_vars
    /\ [](Checked =>
            \A a \in 1..Len(in_versions.k) :
                LacksMatchers(in_versions.v[a]) =>
                    /\ MissingMatchersText(in_versions.k[a]) \in Range(result)
                    /\ MissingDefaultText(in_versions.k[a]) \notin Range(result))

C10_Witness ==
    /\ pc = "entry" /\ n = 2
    /\ LacksMatchers(versions.v[1]) /\ ~HasKey(versions.v[1], K_released_at)
    /\ errors = <<MissingReleasedAtText(versions.k[1]), MissingMatchersText(versions.k[1])>>

====
